---- MODULE Spec2Model ----
(***************************************************************************)
(* Sekhem flood monitoring: the scoped result cache (cache_manager.py) and *)
(* the flood pipeline (sekhem_utils.py): land-cover classification, flood  *)
(* discrimination, land-use analysis, statistics and alert.                *)
(*                                                                         *)
(* Python strings are sequences of one-character strings, so that strip,   *)
(* rstrip, join and startswith are computed character by character.        *)
(* An Optional value is <<>> (None) or <<x>> (the value x).                *)
(***************************************************************************)
EXTENDS Integers, Sequences, FiniteSets, TLC

VARIABLES
    rows,          \* CacheManager._cache : key -> [val, ttl], the store's rows;
                   \* ttl is the row's expire_time less the store's clock
    default_ttl,   \* CacheManager.default_ttl
    hist,          \* history: key -> what was last done to the key's entry
    last,          \* history: the call that was made last, and its outcome
    pc,            \* where enhanced_flood_analysis stands: "idle", "stats", "alert"
    stats,         \* calculate_enhanced_statistics: flood type -> area (ha)
    weighted_risk, \* calculate_enhanced_statistics: the weighted risk
    enhanced_alert_info,   \* Utils.enhanced_alert_info (<<>> is None)
    flood_alert_level,     \* Utils.flood_alert_level
    area_dict,     \* calculate_enhanced_statistics: flood type -> what the
                   \* aggregation service answered for its mask
    stage,         \* where the caller of the raster operations stands
    permanent_water_mask,  \* Utils.permanent_water_mask (<<>> is None)
    urban_mask,            \* Utils.urban_mask (<<>> is None)
    land_cover_data,       \* enhanced_flood_analysis: land_cover_data
    water_analysis,        \* enhanced_flood_analysis: water_analysis
    flood_by_landuse,      \* enhanced_flood_analysis: flood_by_landuse
    args,          \* history: the arguments of the operation called last
    department,    \* Utils.department: the name its features are selected by
    begining,      \* Utils.begining
    end,           \* Utils.end
    made,          \* history: the generate_enhanced_alert_system call made last
    calls,         \* the number of setter calls made on the object
    own,           \* history: the references the run has loaded
    suspended      \* the locals of the run that is suspended

cacheVars == <<rows, default_ttl, hist, last>>
alertVars == <<pc, stats, weighted_risk, enhanced_alert_info, flood_alert_level,
               area_dict, made>>
rasterVars == <<stage, permanent_water_mask, urban_mask, land_cover_data,
                water_analysis, flood_by_landuse, args>>
contextVars == <<department, begining, end, calls>>
runVars == <<own, suspended>>
vars == <<rows, default_ttl, hist, last, pc, stats, weighted_risk,
          enhanced_alert_info, flood_alert_level, area_dict, stage,
          permanent_water_mask, urban_mask, land_cover_data, water_analysis,
          flood_by_landuse, args, department, begining, end, made, calls, own,
          suspended>>

----------------------------------------------------------------------------
(* Bounds *)

MaxTtl == 2           \* TTLs and expire arguments are 0..MaxTtl
AreaDelta == 1        \* areas are taken up to AreaDelta m2 around each threshold
MaxFactor == 2        \* the areas are scaled by the factors 0..MaxFactor
NumPixels == 2        \* a raster is a row of NumPixels pixels
MaxCalls == 1         \* setters are called at most MaxCalls times on an object
MaxSnapshots == 3     \* a collection holds at most MaxSnapshots snapshots

----------------------------------------------------------------------------
(* Python values *)

None == "None"
Values == {"v1", "v2"}

NoneOpt == <<>>
Some(x) == <<x>>
IsNone(o) == o = <<>>
Get(o) == o[1]

----------------------------------------------------------------------------
(* str.strip, str.rstrip, str.join, str.startswith *)

Space == " "

RECURSIVE LStrip(_)
LStrip(s) ==
    IF s /= <<>> /\ Head(s) = Space THEN LStrip(Tail(s)) ELSE s

RECURSIVE RStripChar(_, _)
RStripChar(s, c) ==
    IF s /= <<>> /\ s[Len(s)] = c THEN RStripChar(SubSeq(s, 1, Len(s) - 1), c) ELSE s

Strip(s) == RStripChar(LStrip(s), Space)

RECURSIVE Join(_, _)
Join(sep, segs) ==
    IF segs = <<>> THEN <<>>
    ELSE IF Len(segs) = 1 THEN Head(segs)
    ELSE Head(segs) \o sep \o Join(sep, Tail(segs))

StartsWith_exact(k, prefix) == k = prefix

StartsWith(k, prefix) ==
    /\ Len(prefix) <= Len(k)
    /\ SubSeq(k, 1, Len(prefix)) = prefix

----------------------------------------------------------------------------
(* Key building *)

namespace == <<"S", "E", "K", "H", "E", "M">>
Sep == <<"|">>

Field(tag, v) == tag \o <<"=">> \o v

make_key(name, parts) ==
    LET segs == <<namespace, Strip(name)>>
                  \o [i \in 1..Len(parts) |-> Strip(parts[i])]
    IN  Join(Sep, segs)

key_context(name, dpt, begin, end_, extra) ==
    LET parts == <<Field(<<"d", "p", "t">>, dpt), Field(<<"b">>, begin),
                   Field(<<"e">>, end_)>>
        more  == IF ~IsNone(extra) /\ Get(extra) /= <<>>
                 THEN <<Field(<<"x">>, Get(extra))>> ELSE <<>>
    IN  make_key(name, parts \o more)

scope_prefix(dpt, begin, end_) ==
    RStripChar(
        make_key(<<>>, <<Field(<<"d", "p", "t">>, dpt), Field(<<"b">>, begin),
                         Field(<<"e">>, end_)>>),
        "|")

----------------------------------------------------------------------------
(* The inputs the cache is driven with *)

Names == {<<" ">>, <<" ", "f">>}
Dpts == {<<"D">>, <<"T">>}
Begins == {<<"1">>}
Ends == {<<"2">>}
Extras == {NoneOpt, Some(<<>>), Some(<<"x">>)}

\* the keys getset is called with: one per operation name, and one
\* operation's keys with each discriminator, all of region D
Keys ==
    {key_context(n, <<"D">>, b, e, NoneOpt) :
        n \in Names, b \in Begins, e \in Ends}
    \cup {key_context(<<" ", "f">>, <<"D">>, b, e, x) :
        b \in Begins, e \in Ends, x \in Extras}

Prefixes ==
    {<<>>, namespace \o Sep \o <<"f">>,
     key_context(<<"f">>, <<"D">>, <<"1">>, <<"2">>, NoneOpt),
     key_context(<<"f">>, <<"D">>, <<"1">>, <<"2">>, Some(<<"x">>))}

TTLs == 0..MaxTtl
Expires == {NoneOpt} \cup {Some(t) : t \in TTLs}
Outcomes == Values \cup {None, "raise"}

----------------------------------------------------------------------------
(* The store (diskcache.Cache) as cache_manager.py uses it *)

\* a row is served while its expire_time is later than the clock
Live(store, k) == k \in DOMAIN store /\ store[k].ttl > 0

\* Cache.get(key, default=None)
CacheGet_stale(store, k) ==
    IF k \in DOMAIN store THEN store[k].val ELSE None

CacheGet(store, k) ==
    IF Live(store, k) THEN store[k].val ELSE None

\* Cache.set(key, val, expire=e)
CacheSet(store, k, v, e) ==
    [j \in DOMAIN store \cup {k} |->
        IF j = k THEN [val |-> v, ttl |-> e] ELSE store[j]]

\* del cache[k] raises KeyError on a key with no unexpired row
CanDelete(store, k) == Live(store, k)

\* expire or self.default_ttl
Expire(expire, ttl) ==
    IF ~IsNone(expire) /\ Get(expire) /= 0 THEN Get(expire) ELSE ttl

----------------------------------------------------------------------------
(* The context of a Utils object: its department and its period *)

DEPARTMENT_NAME == "Bignona"

\* the shapeName values of getAllDepartments()
Departments == {"Bignona", "Dakar"}

\* strftime('%Y-%m-%d') of the default period's two days
BEGIN_DEFAULT == <<"2", "0", "2", "4", "-", "0", "1", "-", "0", "5">>
END_DEFAULT == <<"2", "0", "2", "4", "-", "0", "2", "-", "1", "0">>

----------------------------------------------------------------------------
(* datetime.strptime(date_str, '%Y-%m-%d').  The format compiles to the
   regular expression
       (?P<Y>\d\d\d\d)-(?P<m>1[0-2]|0[1-9]|[1-9])-(?P<d>3[0-1]|[1-2]\d|0[1-9]|[1-9]| [1-9])
   which is matched at the start of the string; what the match leaves over,
   and a day the month lacks, raise ValueError. *)

Digits == {"0", "1", "2", "3", "4", "5", "6", "7", "8", "9"}

DigitValue(c) ==
    CASE c = "0" -> 0 [] c = "1" -> 1 [] c = "2" -> 2 [] c = "3" -> 3
      [] c = "4" -> 4 [] c = "5" -> 5 [] c = "6" -> 6 [] c = "7" -> 7
      [] c = "8" -> 8 [] c = "9" -> 9

\* int(s) of a string of digits and spaces
RECURSIVE IntOf(_)
IntOf(s) ==
    IF s = <<>> THEN 0
    ELSE IF s[Len(s)] = Space THEN IntOf(SubSeq(s, 1, Len(s) - 1))
    ELSE 10 * IntOf(SubSeq(s, 1, Len(s) - 1)) + DigitValue(s[Len(s)])

IsLeap(year) == year % 4 = 0 /\ (year % 100 /= 0 \/ year % 400 = 0)

DaysIn(year, month) ==
    IF month = 2 THEN (IF IsLeap(year) THEN 29 ELSE 28)
    ELSE IF month \in {4, 6, 9, 11} THEN 30 ELSE 31

\* the length of the match of 1[0-2]|0[1-9]|[1-9] at the start of s, 0 when
\* none matches
MatchMonth(s) ==
    IF Len(s) >= 2 /\ s[1] = "1" /\ s[2] \in {"0", "1", "2"} THEN 2
    ELSE IF Len(s) >= 2 /\ s[1] = "0" /\ s[2] \in Digits \ {"0"} THEN 2
    ELSE IF Len(s) >= 1 /\ s[1] \in Digits \ {"0"} THEN 1
    ELSE 0

\* the length of the match of 3[0-1]|[1-2]\d|0[1-9]|[1-9]| [1-9]
MatchDay(s) ==
    IF Len(s) >= 2 /\ s[1] = "3" /\ s[2] \in {"0", "1"} THEN 2
    ELSE IF Len(s) >= 2 /\ s[1] \in {"1", "2"} /\ s[2] \in Digits THEN 2
    ELSE IF Len(s) >= 2 /\ s[1] = "0" /\ s[2] \in Digits \ {"0"} THEN 2
    ELSE IF Len(s) >= 1 /\ s[1] \in Digits \ {"0"} THEN 1
    ELSE IF Len(s) >= 2 /\ s[1] = Space /\ s[2] \in Digits \ {"0"} THEN 2
    ELSE 0

\* the month alternative after which the pattern goes on matching: the
\* first one followed by "-"
MonthLength(s) ==
    LET n == MatchMonth(s) IN
    IF n > 0 /\ Len(s) > n /\ s[n + 1] = "-" THEN n
    ELSE IF n = 2 /\ s[1] /= "0" /\ s[2] = "-" THEN 1
    ELSE 0

\* the date parsed, or None when strptime raises ValueError
strptime(date_str) ==
    IF ~(/\ Len(date_str) >= 5
         /\ \A i \in 1..4 : date_str[i] \in Digits
         /\ date_str[5] = "-")
    THEN NoneOpt
    ELSE
    LET after_year == SubSeq(date_str, 6, Len(date_str))
        m == MonthLength(after_year)
        after_month == SubSeq(after_year, m + 2, Len(after_year))
        d == MatchDay(after_month)
        year == IntOf(SubSeq(date_str, 1, 4))
        month == IntOf(SubSeq(after_year, 1, m))
        day == IntOf(SubSeq(after_month, 1, d))
    IN  IF m = 0 \/ d = 0 THEN NoneOpt
        ELSE IF Len(after_month) /= d THEN NoneOpt
        ELSE IF year < 1 \/ day > DaysIn(year, month) THEN NoneOpt
        ELSE Some([year |-> year, month |-> month, day |-> day])

----------------------------------------------------------------------------
(* History kept for the properties *)

\* op, key: the call and its key or prefix; before, was_live: hist[key] and
\* Live(rows, key) when a getset was called; invoked, computed: whether
\* compute_fn was called and what it returned; set_failed: the store's set
\* raised; raised, ret: the call raised, or returned ret; count: what a clear
\* returned
NoCall == [op |-> "none", key |-> <<>>, before |-> "none", was_live |-> FALSE,
           invoked |-> FALSE, computed |-> None, set_failed |-> FALSE,
           raised |-> FALSE, ret |-> None, count |-> 0]

Before(h, k) == IF k \in DOMAIN h THEN h[k] ELSE "none"

\* hist[k] is "stored" once a getset has stored a value under k, "cleared"
\* once a clear covering k was called after that, "failed" when the last
\* getset that computed a value for k could not store it
Note(h, k, what) ==
    [j \in DOMAIN h \cup {k} |-> IF j = k THEN what ELSE h[j]]

MarkCleared(h, prefix) ==
    [k \in DOMAIN h |->
        IF StartsWith(k, prefix) /\ h[k] = "stored" THEN "cleared" ELSE h[k]]

\* the locals of a run of enhanced_flood_analysis that has not started
NotStarted ==
    [stage |-> "idle", pc |-> "idle", land_cover_data |-> <<>>,
     water_analysis |-> <<>>, flood_by_landuse |-> <<>>, stats |-> <<>>,
     weighted_risk |-> 0, area_dict |-> <<>>, args |-> <<>>, own |-> <<>>]

----------------------------------------------------------------------------
Init ==
    /\ rows = <<>>
    /\ default_ttl = MaxTtl
    /\ hist = <<>>
    /\ last = NoCall
    /\ pc = "idle"
    /\ stats = <<>>
    /\ weighted_risk = 0
    /\ enhanced_alert_info = <<>>
    /\ flood_alert_level = 0
    /\ area_dict = <<>>
    /\ stage = "idle"
    /\ permanent_water_mask = <<>>
    /\ urban_mask = <<>>
    /\ land_cover_data = <<>>
    /\ water_analysis = <<>>
    /\ flood_by_landuse = <<>>
    /\ args = <<>>
    /\ department = DEPARTMENT_NAME
    /\ begining = BEGIN_DEFAULT
    /\ end = END_DEFAULT
    /\ made = <<>>
    /\ calls = 0
    /\ own = <<>>
    /\ suspended = NotStarted

\* what getset does when the store's set raised: the except clause
OnSetFailure_raise(val) == "raise"

OnSetFailure(val) == val

\* CacheManager.getset(key, compute_fn, expire); `out` is what compute_fn
\* does when it is called, `ok` whether the store's set succeeds
getset(key, out, expire, ok) ==
    LET val  == CacheGet(rows, key)
        call == [NoCall EXCEPT !.op = "getset", !.key = key,
                               !.before = Before(hist, key),
                               !.was_live = Live(rows, key)]
    IN
    IF val /= None
    THEN /\ last' = [call EXCEPT !.ret = val]
         /\ UNCHANGED <<rows, default_ttl, hist, alertVars, rasterVars, contextVars, runVars>>
    ELSE IF out = "raise"
    THEN /\ last' = [call EXCEPT !.invoked = TRUE, !.raised = TRUE]
         /\ UNCHANGED <<rows, default_ttl, hist, alertVars, rasterVars, contextVars, runVars>>
    ELSE IF ok
    THEN /\ rows' = CacheSet(rows, key, out, Expire(expire, default_ttl))
         /\ hist' = Note(hist, key, "stored")
         /\ last' = [call EXCEPT !.invoked = TRUE, !.computed = out,
                                 !.ret = out]
         /\ UNCHANGED <<default_ttl, alertVars, rasterVars, contextVars, runVars>>
    ELSE /\ hist' = Note(hist, key, "failed")
         /\ last' = [call EXCEPT !.invoked = TRUE, !.computed = out,
                         !.set_failed = TRUE,
                         !.raised = (OnSetFailure(out) = "raise"),
                         !.ret = IF OnSetFailure(out) = "raise"
                                 THEN None ELSE OnSetFailure(out)]
         /\ UNCHANGED <<rows, default_ttl, alertVars, rasterVars, contextVars, runVars>>

\* the keys clear_prefix deletes: those that start with prefix and whose
\* del does not raise
Doomed(store, prefix) ==
    {k \in DOMAIN store : StartsWith(k, prefix) /\ CanDelete(store, k)}

\* CacheManager.clear_prefix(prefix), called as `op`
ClearRows(op, prefix) ==
    LET gone == Doomed(rows, prefix) IN
    /\ rows' = [k \in DOMAIN rows \ gone |-> rows[k]]
    /\ hist' = MarkCleared(hist, prefix)
    /\ last' = [NoCall EXCEPT !.op = op, !.key = prefix,
                              !.count = Cardinality(gone)]
    /\ UNCHANGED <<default_ttl, alertVars, rasterVars, contextVars, runVars>>

clear_prefix(prefix) == ClearRows("clear_prefix", prefix)

\* CacheManager.clear_context(dpt, begin, end)
clear_context(dpt, begin, end_) ==
    ClearRows("clear_context", scope_prefix(dpt, begin, end_))

\* one second passes between two calls: every row is one second closer to
\* its expire_time
Tick ==
    /\ last = NoCall
    /\ \E k \in DOMAIN rows : rows[k].ttl > 0
    /\ rows' = [k \in DOMAIN rows |->
                  [rows[k] EXCEPT !.ttl = IF @ > 0 THEN @ - 1 ELSE 0]]
    /\ UNCHANGED <<default_ttl, hist, last, alertVars, rasterVars, contextVars, runVars>>

\* the call returns to its caller, which may call again
Return ==
    /\ last /= NoCall
    /\ last' = NoCall
    /\ UNCHANGED <<rows, default_ttl, hist, alertVars, rasterVars, contextVars, runVars>>

\* compute_fn, expire and the store's set matter only as far as getset
\* reaches them
DoGetSet ==
    /\ last = NoCall
    /\ \E key \in Keys :
        IF CacheGet(rows, key) /= None
        THEN getset(key, None, NoneOpt, TRUE)
        ELSE \/ getset(key, "raise", NoneOpt, TRUE)
             \/ \E out \in Outcomes \ {"raise"} : getset(key, out, NoneOpt, FALSE)
             \/ \E out \in Outcomes \ {"raise"}, expire \in Expires :
                    getset(key, out, expire, TRUE)

DoClearPrefix == last = NoCall /\ \E prefix \in Prefixes : clear_prefix(prefix)

DoClearContext ==
    /\ last = NoCall
    /\ \E d \in Dpts, b \in Begins, e \in Ends : clear_context(d, b, e)

NextCache ==
    \/ DoGetSet
    \/ DoClearPrefix
    \/ DoClearContext
    \/ Tick
    \/ Return

SpecCache == Init /\ [][NextCache]_vars

----------------------------------------------------------------------------
(* Numbers.  An ee.Number or a Python float x is the integer x * Unit: areas
   are whole square metres, 1 m2 = 1/10000 ha, and the weights are multiples
   of 1/2, so every value the stages compute is exact. *)

Unit == 2 * 10000

Num(n) == n * Unit

\* x.divide(d), x a whole number of square metres
Divide(x, d) == (x * (Unit \div d))

\* x.multiply(num/den)
Multiply(x, num, den) == (x * num) \div den

\* round(x, 2): to the nearest hundredth, a tie to the even one
Round2(x) ==
    LET step == Unit \div 100
        q == x \div step
        r == x % step
    IN  IF 2 * r < step \/ (2 * r = step /\ q % 2 = 0)
        THEN q * step ELSE (q + 1) * step

----------------------------------------------------------------------------
(* calculate_enhanced_statistics *)

URBAN_WEIGHT == 3

FloodTypes == {"urban_flooding", "rural_flooding", "agricultural_flooding",
               "forest_flooding"}

\* what the aggregation service answers for one mask: the summed area under
\* the band key ("area"), a dictionary without the band key ("nokey"), a null
\* value under it ("null"), or an error ("error")
Answer(kind, m2) == [kind |-> kind, m2 |-> m2]

AreaStat_sentinel(answer) ==
    IF answer.kind = "area" THEN Divide(answer.m2, 10000) ELSE Num(-1)

\* the area statistic of one flood type, in hectares
AreaStat(answer) ==
    IF answer.kind = "area" /\ answer.m2 /= 0
    THEN Divide(answer.m2, 10000)
    ELSE Num(0)

\* stats.get(flood_type, ee.Number(0))
StatOf(st, flood_type) ==
    IF flood_type \in DOMAIN st THEN st[flood_type] ELSE Num(0)

WeightedRisk_unweighted(st) ==
    StatOf(st, "urban_flooding") + StatOf(st, "agricultural_flooding")
        + StatOf(st, "rural_flooding") + StatOf(st, "forest_flooding")

WeightedRisk_capped(st) ==
    Multiply(StatOf(st, "urban_flooding"), URBAN_WEIGHT, 1)
        + Multiply(StatOf(st, "agricultural_flooding"), 3, 2)
        + (IF StatOf(st, "rural_flooding") > Num(10000)
           THEN Num(10000) ELSE StatOf(st, "rural_flooding"))
        + Multiply(StatOf(st, "forest_flooding"), 1, 2)

WeightedRisk(st) ==
    Multiply(StatOf(st, "urban_flooding"), URBAN_WEIGHT, 1)
        + Multiply(StatOf(st, "agricultural_flooding"), 3, 2)
        + StatOf(st, "rural_flooding")
        + Multiply(StatOf(st, "forest_flooding"), 1, 2)

\* calculate_enhanced_statistics(flood_by_landuse); answers maps each flood
\* type of flood_by_landuse to the service's answer for its mask
calculate_enhanced_statistics(answers) ==
    /\ pc = "idle"
    /\ area_dict' = answers
    /\ stats' = [t \in DOMAIN answers |-> AreaStat(answers[t])]
    /\ weighted_risk' = WeightedRisk(stats')
    /\ pc' = "stats"
    /\ UNCHANGED <<enhanced_alert_info, flood_alert_level, made, cacheVars,
                   rasterVars, contextVars, runVars>>

\* calculate_enhanced_statistics(None): the land-use analysis gave no masks
calculate_enhanced_statistics_none ==
    /\ pc = "idle"
    /\ area_dict' = <<>>
    /\ stats' = <<>>
    /\ weighted_risk' = Num(0)
    /\ pc' = "stats"
    /\ UNCHANGED <<enhanced_alert_info, flood_alert_level, made, cacheVars,
                   rasterVars, contextVars, runVars>>

----------------------------------------------------------------------------
(* generate_enhanced_alert_system.  The messages are written without their
   accents. *)

MsgNone ==
    <<"A", "u", "c", "u", "n", "e", " ", "i", "n", "o", "n", "d", "a", "t",
      "i", "o", "n", " ", "s", "i", "g", "n", "i", "f", "i", "c", "a", "t",
      "i", "v", "e", " ", "d", "e", "t", "e", "c", "t", "e", "e">>

MsgRed ==
    <<"A", "L", "E", "R", "T", "E", " ", "R", "O", "U", "G", "E", " ", ":",
      " ", "I", "n", "o", "n", "d", "a", "t", "i", "o", "n", "s", " ", "u",
      "r", "b", "a", "i", "n", "e", "s", " ", "m", "a", "j", "e", "u", "r",
      "e", "s">>

MsgOrange ==
    <<"A", "L", "E", "R", "T", "E", " ", "O", "R", "A", "N", "G", "E", " ",
      ":", " ", "I", "n", "o", "n", "d", "a", "t", "i", "o", "n", "s", " ",
      "u", "r", "b", "a", "i", "n", "e", "s", " ", "i", "m", "p", "o", "r",
      "t", "a", "n", "t", "e", "s">>

MsgYellow ==
    <<"A", "L", "E", "R", "T", "E", " ", "J", "A", "U", "N", "E", " ", ":",
      " ", "I", "n", "o", "n", "d", "a", "t", "i", "o", "n", "s", " ", "u",
      "r", "b", "a", "i", "n", "e", "s", " ", "m", "o", "d", "e", "r", "e",
      "e", "s">>

MsgUrban ==
    <<"V", "I", "G", "I", "L", "A", "N", "C", "E", " ", ":", " ", "I", "n",
      "o", "n", "d", "a", "t", "i", "o", "n", "s", " ", "u", "r", "b", "a",
      "i", "n", "e", "s", " ", "m", "i", "n", "e", "u", "r", "e", "s", " ",
      "d", "e", "t", "e", "c", "t", "e", "e", "s">>

MsgRural ==
    <<"V", "I", "G", "I", "L", "A", "N", "C", "E", " ", ":", " ", "I", "n",
      "o", "n", "d", "a", "t", "i", "o", "n", "s", " ", "i", "m", "p", "o",
      "r", "t", "a", "n", "t", "e", "s", " ", "e", "n", " ", "z", "o", "n",
      "e", "s", " ", "r", "u", "r", "a", "l", "e", "s", "/", "a", "g", "r",
      "i", "c", "o", "l", "e", "s">>

MsgError ==
    <<"E", "r", "r", "e", "u", "r", " ", "d", "e", " ", "c", "a", "l", "c",
      "u", "l", " ", "d", "e", "s", " ", "a", "l", "e", "r", "t", "e", "s">>

\* the ladder: [level, message, zones]
Ladder_inclusive(urban, agricultural, rural) ==
    IF urban >= Num(1000)
    THEN [level |-> 4, message |-> MsgRed,
          zones |-> <<"zones urbaines critiques">>]
    ELSE IF urban >= Num(500)
    THEN [level |-> 3, message |-> MsgOrange, zones |-> <<"zones urbaines">>]
    ELSE IF urban >= Num(100)
    THEN [level |-> 2, message |-> MsgYellow,
          zones |-> <<"zones urbaines localisees">>]
    ELSE IF urban >= Num(10)
    THEN [level |-> 1, message |-> MsgUrban,
          zones |-> <<"quelques zones urbaines">>]
    ELSE IF agricultural >= Num(5000) \/ rural >= Num(10000)
    THEN [level |-> 1, message |-> MsgRural,
          zones |-> (IF agricultural >= Num(5000)
                     THEN <<"zones agricoles">> ELSE <<>>)
                    \o (IF rural >= Num(10000)
                        THEN <<"zones rurales">> ELSE <<>>)]
    ELSE [level |-> 0, message |-> MsgNone, zones |-> <<>>]

\* the rules as closed-open bands: an area on a band's upper edge falls
\* through to the rules below
Ladder_banded(urban, agricultural, rural) ==
    IF urban > Num(1000)
    THEN [level |-> 4, message |-> MsgRed,
          zones |-> <<"zones urbaines critiques">>]
    ELSE IF urban > Num(500) /\ urban < Num(1000)
    THEN [level |-> 3, message |-> MsgOrange, zones |-> <<"zones urbaines">>]
    ELSE IF urban > Num(100) /\ urban < Num(500)
    THEN [level |-> 2, message |-> MsgYellow,
          zones |-> <<"zones urbaines localisees">>]
    ELSE IF urban > Num(10) /\ urban < Num(100)
    THEN [level |-> 1, message |-> MsgUrban,
          zones |-> <<"quelques zones urbaines">>]
    ELSE IF agricultural > Num(5000) \/ rural > Num(10000)
    THEN [level |-> 1, message |-> MsgRural,
          zones |-> (IF agricultural > Num(5000)
                     THEN <<"zones agricoles">> ELSE <<>>)
                    \o (IF rural > Num(10000)
                        THEN <<"zones rurales">> ELSE <<>>)]
    ELSE [level |-> 0, message |-> MsgNone, zones |-> <<>>]

\* the rules applied one after the other, each raising the level
Ladder_cumulative(urban, agricultural, rural) ==
    LET base == IF urban > Num(1000) THEN 4 ELSE IF urban > Num(500) THEN 3
                ELSE IF urban > Num(100) THEN 2 ELSE IF urban > Num(10) THEN 1
                ELSE 0
        ag == IF agricultural > Num(5000) THEN 1 ELSE 0
        ru == IF rural > Num(10000) THEN 1 ELSE 0
    IN  [level |-> base + ag + ru,
         message |-> IF base + ag + ru = 0 THEN MsgNone ELSE MsgRural,
         zones |-> (IF base > 0 THEN <<"zones urbaines">> ELSE <<>>)
                   \o (IF ag = 1 THEN <<"zones agricoles">> ELSE <<>>)
                   \o (IF ru = 1 THEN <<"zones rurales">> ELSE <<>>)]

Ladder(urban, agricultural, rural) ==
    IF urban > Num(1000)
    THEN [level |-> 4, message |-> MsgRed,
          zones |-> <<"zones urbaines critiques">>]
    ELSE IF urban > Num(500)
    THEN [level |-> 3, message |-> MsgOrange, zones |-> <<"zones urbaines">>]
    ELSE IF urban > Num(100)
    THEN [level |-> 2, message |-> MsgYellow,
          zones |-> <<"zones urbaines localisees">>]
    ELSE IF urban > Num(10)
    THEN [level |-> 1, message |-> MsgUrban,
          zones |-> <<"quelques zones urbaines">>]
    ELSE IF agricultural > Num(5000) \/ rural > Num(10000)
    THEN [level |-> 1, message |-> MsgRural,
          zones |-> (IF agricultural > Num(5000)
                     THEN <<"zones agricoles">> ELSE <<>>)
                    \o (IF rural > Num(10000)
                        THEN <<"zones rurales">> ELSE <<>>)]
    ELSE [level |-> 0, message |-> MsgNone, zones |-> <<>>]

\* the record returned when every getInfo succeeded
AlertRecord(st, risk) ==
    LET urban_flood_ha        == StatOf(st, "urban_flooding")
        rural_flood_ha        == StatOf(st, "rural_flooding")
        agricultural_flood_ha == StatOf(st, "agricultural_flooding")
        forest_flood_ha       == StatOf(st, "forest_flooding")
        rule == Ladder(urban_flood_ha, agricultural_flood_ha, rural_flood_ha)
    IN  [alert_level |-> rule.level,
         alert_message |-> rule.message,
         urban_flood_ha |-> Round2(urban_flood_ha),
         rural_flood_ha |-> Round2(rural_flood_ha),
         agricultural_flood_ha |-> Round2(agricultural_flood_ha),
         forest_flood_ha |-> Round2(forest_flood_ha),
         weighted_risk |-> Round2(risk),
         priority_zones |-> rule.zones,
         total_flood_ha |-> Round2(urban_flood_ha + rural_flood_ha
                                     + agricultural_flood_ha + forest_flood_ha)]

\* an error record that flags the failure with negative values
ErrorRecord_sentinel ==
    [alert_level |-> -1, alert_message |-> MsgError,
     urban_flood_ha |-> -1, rural_flood_ha |-> -1,
     agricultural_flood_ha |-> -1, forest_flood_ha |-> -1,
     weighted_risk |-> -1, priority_zones |-> <<>>, total_flood_ha |-> -1]

\* the record returned when a getInfo raised
ErrorRecord ==
    [alert_level |-> 0, alert_message |-> MsgError,
     urban_flood_ha |-> 0, rural_flood_ha |-> 0,
     agricultural_flood_ha |-> 0, forest_flood_ha |-> 0,
     weighted_risk |-> 0, priority_zones |-> <<>>, total_flood_ha |-> 0]

\* generate_enhanced_alert_system(stats, weighted_risk) and the assignment of
\* its result to enhanced_alert_info; `materialised` is whether every getInfo
\* returned
generate_enhanced_alert_system(materialised) ==
    /\ pc = "stats"
    /\ made' = Some([materialised |-> materialised,
                     context |-> <<department, begining, end>>])
    /\ IF materialised
       THEN /\ flood_alert_level' = AlertRecord(stats, weighted_risk).alert_level
            /\ enhanced_alert_info' = Some(AlertRecord(stats, weighted_risk))
       ELSE /\ enhanced_alert_info' = Some(ErrorRecord)
            /\ UNCHANGED flood_alert_level
    /\ pc' = "alert"
    /\ UNCHANGED <<stats, weighted_risk, area_dict, cacheVars, rasterVars, contextVars, runVars>>

----------------------------------------------------------------------------
(* The inputs the statistics are driven with: areas in square metres *)

Around(ha) == {ha * 10000 + d : d \in -AreaDelta..AreaDelta}

UrbanAreas ==
    {0, 50 * 10000, 1200 * 10000}
        \cup Around(10) \cup Around(100) \cup Around(500) \cup Around(1000)
AgriculturalAreas == {0, 6000 * 10000} \cup Around(5000)
RuralAreas == {0} \cup Around(10000)
ForestAreas == {0, 20000 * 10000}

AreasOf(t) ==
    CASE t = "urban_flooding" -> UrbanAreas
      [] t = "agricultural_flooding" -> AgriculturalAreas
      [] t = "rural_flooding" -> RuralAreas
      [] t = "forest_flooding" -> ForestAreas

Answers(t) ==
    {Answer("area", m2) : m2 \in AreasOf(t)}
        \cup {Answer(k, 0) : k \in {"nokey", "null", "error"}}

FloodByLanduse ==
    UNION {{f \in [present -> UNION {Answers(t) : t \in present}] :
                \A t \in present : f[t] \in Answers(t)} :
           present \in SUBSET FloodTypes}

DoStatistics ==
    \/ \E answers \in FloodByLanduse :
            calculate_enhanced_statistics(answers)
    \/ calculate_enhanced_statistics_none

DoAlert == \E materialised \in BOOLEAN : generate_enhanced_alert_system(materialised)

NextAlert == DoStatistics \/ DoAlert

SpecAlert == Init /\ [][NextAlert]_vars

----------------------------------------------------------------------------
(* Rasters.  An ee.Image of one band is a row of pixels: px[i] is the value
   of pixel i.  Building an image never fails; an image that selects a band
   its source lacks cannot be evaluated (ok = FALSE), and neither can an
   image computed from it.  Every pixel is valid (unmasked). *)

Pixels == 1..NumPixels

Image(px) == [ok |-> TRUE, px |-> px]
Broken == [ok |-> FALSE, px |-> [i \in Pixels |-> FALSE]]

\* ee.Image(v): the constant image
Constant(v) == Image([i \in Pixels |-> v])

\* image.select(band) on an image of several bands
select(img, band) ==
    IF band \in img.bands
    THEN Image([i \in Pixels |-> img.px[i][band]])
    ELSE Broken

\* image.gt(t), image.lt(t)
gt(a, t) == IF a.ok THEN Image([i \in Pixels |-> a.px[i] > t]) ELSE Broken
lt(a, t) == IF a.ok THEN Image([i \in Pixels |-> a.px[i] < t]) ELSE Broken

\* a.And(b), a.Not()
And(a, b) ==
    IF a.ok /\ b.ok
    THEN Image([i \in Pixels |-> a.px[i] /\ b.px[i]])
    ELSE Broken
Not(a) == IF a.ok THEN Image([i \in Pixels |-> ~a.px[i]]) ELSE Broken

\* input.where(test, value): value where test is set, input elsewhere
where(input, test, value) ==
    IF input.ok /\ test.ok
    THEN Image([i \in Pixels |-> IF test.px[i] THEN value ELSE input.px[i]])
    ELSE Broken

\* image.focal_min(radius, 'circle', 'pixels'): the minimum over the pixels
\* of the row at most radius away
focal_min(a, radius) ==
    IF a.ok
    THEN Image([i \in Pixels |->
                  \A j \in Pixels : (j - i <= radius /\ i - j <= radius) => a.px[j]])
    ELSE Broken

\* the number of pixels of the image whose value is v
Count(img, v) == Cardinality({i \in Pixels : img.px[i] = v})

----------------------------------------------------------------------------
(* classify_land_cover.  Index values are in hundredths. *)

WATER_THRESHOLD_MNDWI == 0
WATER_THRESHOLD_NDWI == 10
NDBI_THRESHOLD == 10
NDVI_THRESHOLD == 40
\* the literal 0.2 that bounds bare soil, agriculture and index-derived urban
LowVegetation == 20

IndexBands == {"MNDWI", "NDWI", "NDVI", "NDBI"}

land_cover_no_default(b, a, v, u, w) ==
    where(where(where(where(where(Constant(5), b, 0), a, 1), v, 2), u, 3), w, 4)

land_cover_water_first(b, a, v, u, w) ==
    where(where(where(where(where(Constant(0), w, 4), b, 0), a, 1), v, 2), u, 3)

\* the categorical raster: bare soil by default, then each mask written over
\* what the earlier ones wrote
land_cover(b, a, v, u, w) ==
    where(where(where(where(where(Constant(0), b, 0), a, 1), v, 2), u, 3), w, 4)

\* the dictionary classify_land_cover returns for the median image s2 when
\* Utils.urban_mask is um
LandCoverData(s2, um) ==
    LET mndwi == select(s2, "MNDWI")
        ndwi  == select(s2, "NDWI")
        ndvi  == select(s2, "NDVI")
        ndbi  == select(s2, "NDBI")
        water_mask == And(gt(mndwi, WATER_THRESHOLD_MNDWI),
                          gt(ndwi, WATER_THRESHOLD_NDWI))
        urban == IF IsNone(um)
                 THEN And(gt(ndbi, NDBI_THRESHOLD), lt(ndvi, LowVegetation))
                 ELSE Get(um)
        vegetation_mask == gt(ndvi, NDVI_THRESHOLD)
        agricultural_mask ==
            And(And(gt(ndvi, LowVegetation), lt(ndvi, NDVI_THRESHOLD)),
                lt(ndbi, NDBI_THRESHOLD))
        bare_soil_mask == And(lt(ndvi, LowVegetation), lt(ndbi, NDBI_THRESHOLD))
    IN  [land_cover |-> land_cover(bare_soil_mask, agricultural_mask,
                                   vegetation_mask, urban, water_mask),
         water |-> water_mask,
         urban |-> urban,
         vegetation |-> vegetation_mask,
         agricultural |-> agricultural_mask,
         bare_soil |-> bare_soil_mask]

\* classify_land_cover(s2_median); `raises` is whether a call of the raster
\* library raises, which the except clause turns into None
classify_land_cover(s2_median, raises) ==
    /\ land_cover_data' = IF raises THEN NoneOpt
                          ELSE Some(LandCoverData(s2_median, urban_mask))
    /\ args' = Some([op |-> "classify_land_cover", s2_median |-> s2_median,
                     urban_mask |-> urban_mask, raises |-> raises])
    /\ UNCHANGED <<permanent_water_mask, urban_mask>>

\* the reference rasters the catalogue can hold
RefMasks == {Image([i \in Pixels |-> i = 1]), Image([i \in Pixels |-> FALSE])}
Reference == {NoneOpt} \cup {Some(m) : m \in RefMasks}

\* create_reference_masks(): each reference is loaded, or None when its
\* load raises
create_reference_masks ==
    /\ permanent_water_mask' \in Reference
    /\ urban_mask' \in Reference
    /\ UNCHANGED <<land_cover_data, water_analysis, flood_by_landuse, args>>

----------------------------------------------------------------------------
(* detect_flood_vs_normal_water *)

erosion_radius == 2

Fallback_no_erosion(current_water, slope) ==
    IF IsNone(slope) THEN Broken ELSE And(current_water, lt(Get(slope), 2))

\* the reference derived when permanent_water_mask is None; slope is the
\* terrain slope in degrees, None when the elevation lookup raises
Fallback(current_water, slope) ==
    IF IsNone(slope)
    THEN focal_min(current_water, erosion_radius)
    ELSE And(current_water, lt(Get(slope), 2))

normal_rivers(current_water, reference) == And(current_water, reference)

flood_areas_all(current_water, reference) == current_water

flood_areas(current_water, reference) == And(current_water, Not(reference))

\* detect_flood_vs_normal_water(current_water); `raises` is whether building
\* the two masks raises, which the except clause turns into None
detect_flood_vs_normal_water(current_water, slope, raises) ==
    LET reference == IF IsNone(permanent_water_mask)
                     THEN Fallback(current_water, slope)
                     ELSE Get(permanent_water_mask)
    IN
    /\ permanent_water_mask' = Some(reference)
    /\ water_analysis' =
          IF raises THEN NoneOpt
          ELSE Some([normal_water |-> normal_rivers(current_water, reference),
                     flood_areas |-> flood_areas(current_water, reference)])
    /\ args' = Some([op |-> "detect_flood_vs_normal_water",
                     current_water |-> current_water,
                     permanent_water_mask |-> permanent_water_mask,
                     slope |-> slope, raises |-> raises])
    /\ UNCHANGED urban_mask

----------------------------------------------------------------------------
(* analyze_flood_by_land_use *)

rural_flooding_all(flood, urban) == flood

rural_flooding(flood, urban) == And(flood, Not(urban))

\* analyze_flood_by_land_use(flood_areas, land_cover_masks); `raises` is
\* whether building the masks raises, which the except clause turns into None
analyze_flood_by_land_use(flood, land_cover_masks, raises) ==
    /\ flood_by_landuse' =
          IF raises THEN NoneOpt
          ELSE Some([urban_flooding |-> And(flood, land_cover_masks.urban),
                     rural_flooding |-> rural_flooding(flood, land_cover_masks.urban),
                     agricultural_flooding |->
                         And(flood, land_cover_masks.agricultural),
                     forest_flooding |-> And(flood, land_cover_masks.vegetation)])
    /\ args' = Some([op |-> "analyze_flood_by_land_use", flood_areas |-> flood,
                     land_cover_masks |-> land_cover_masks, raises |-> raises])
    /\ UNCHANGED <<permanent_water_mask, urban_mask>>

----------------------------------------------------------------------------
(* The raster operations called one at a time, with any arguments *)

IndexPixels == [MNDWI : {0, 1}, NDWI : {10, 11}, NDVI : {19, 30, 41}, NDBI : {9, 11}]

\* median images with every index band, and images that lack one
Medians ==
    {[bands |-> IndexBands, px |-> px] : px \in [Pixels -> IndexPixels]}
        \cup {[bands |-> IndexBands \ {b}, px |-> [i \in Pixels |-> q]] :
                b \in IndexBands, q \in IndexPixels}

Masks == {Image(px) : px \in [Pixels -> BOOLEAN]}

\* the terrain slope, or None when the elevation lookup raises
Slopes == {NoneOpt} \cup {Some(Image(px)) : px \in [Pixels -> {1, 2}]}

LandCoverMasks == [urban : Masks, vegetation : Masks, agricultural : Masks]

DoReferenceMasks ==
    /\ stage = "idle"
    /\ create_reference_masks
    /\ UNCHANGED <<stage, cacheVars, alertVars, contextVars, runVars>>

DoClassify ==
    /\ stage = "idle"
    /\ \E s2_median \in Medians, raises \in BOOLEAN :
            classify_land_cover(s2_median, raises)
    /\ stage' = "called"
    /\ UNCHANGED <<water_analysis, flood_by_landuse, cacheVars, alertVars, contextVars, runVars>>

DoDetect ==
    /\ stage = "idle"
    /\ \E current_water \in Masks, slope \in Slopes, raises \in BOOLEAN :
            detect_flood_vs_normal_water(current_water, slope, raises)
    /\ stage' = "called"
    /\ UNCHANGED <<land_cover_data, flood_by_landuse, cacheVars, alertVars, contextVars, runVars>>

DoAnalyze ==
    /\ stage = "idle"
    /\ \E flood \in Masks, land_cover_masks \in LandCoverMasks,
          raises \in BOOLEAN :
            analyze_flood_by_land_use(flood, land_cover_masks, raises)
    /\ stage' = "called"
    /\ UNCHANGED <<land_cover_data, water_analysis, cacheVars, alertVars, contextVars, runVars>>

\* the call returns and its caller drops the result
ReturnRaster ==
    /\ stage = "called"
    /\ stage' = "idle"
    /\ land_cover_data' = NoneOpt
    /\ water_analysis' = NoneOpt
    /\ flood_by_landuse' = NoneOpt
    /\ args' = NoneOpt
    /\ UNCHANGED <<permanent_water_mask, urban_mask, cacheVars, alertVars, contextVars, runVars>>

NextRaster ==
    \/ DoReferenceMasks
    \/ DoClassify
    \/ DoDetect
    \/ DoAnalyze
    \/ ReturnRaster

SpecRaster == Init /\ [][NextRaster]_vars

----------------------------------------------------------------------------
(* enhanced_flood_analysis, stage by stage, as Utils.__init__ runs it *)

STATISTICS_SCALE == 500

\* the area of one pixel at the aggregation scale, in square metres
PixelArea == STATISTICS_SCALE * STATISTICS_SCALE

\* the pixels of the scenes the run is driven with: vegetation under water,
\* built-up dry land, farmland under water
ScenePixels ==
    {[MNDWI |-> 1, NDWI |-> 11, NDVI |-> 41, NDBI |-> 9],
     [MNDWI |-> 0, NDWI |-> 10, NDVI |-> 19, NDBI |-> 11],
     [MNDWI |-> 1, NDWI |-> 11, NDVI |-> 30, NDBI |-> 9]}

\* the median images: with every index band, or without any when the index
\* calculation failed
Scenes ==
    {[bands |-> IndexBands, px |-> px] : px \in [Pixels -> ScenePixels]}
        \cup {[bands |-> {}, px |-> [i \in Pixels |-> q]] : q \in ScenePixels}

\* what the aggregation service answers for a mask: the area of its set
\* pixels, or an error when the call fails or the mask cannot be evaluated
ServiceAnswer(mask, fails) ==
    IF mask.ok /\ ~fails
    THEN Answer("area", Count(mask, TRUE) * PixelArea)
    ELSE Answer("error", 0)

\* lines 568-577: the median is built lazily, the references are loaded
RunReferenceMasks ==
    /\ stage = "idle"
    /\ create_reference_masks
    /\ own' = Some([permanent_water_mask |-> permanent_water_mask',
                    urban_mask |-> urban_mask'])
    /\ stage' = "references"
    /\ UNCHANGED <<cacheVars, alertVars, contextVars, suspended>>

\* lines 579-580: a None from the classification is subscripted, which ends
\* the run in the except clause of enhanced_flood_analysis
RunClassify ==
    /\ stage = "references"
    /\ \E s2_median \in Scenes, raises \in BOOLEAN :
            classify_land_cover(s2_median, raises)
    /\ stage' = IF IsNone(land_cover_data') THEN "aborted" ELSE "classified"
    /\ UNCHANGED <<water_analysis, flood_by_landuse, cacheVars, alertVars, contextVars, runVars>>

\* lines 581-584: a None from the discrimination is subscripted likewise
RunDetect ==
    /\ stage = "classified"
    /\ \E slope \in Slopes, raises \in BOOLEAN :
            detect_flood_vs_normal_water(Get(land_cover_data).water, slope, raises)
    /\ stage' = IF IsNone(water_analysis') THEN "aborted" ELSE "detected"
    /\ UNCHANGED <<land_cover_data, flood_by_landuse, cacheVars, alertVars, contextVars, runVars>>

\* lines 583-586
RunAnalyze ==
    /\ stage = "detected"
    /\ \E raises \in BOOLEAN :
            analyze_flood_by_land_use(Get(water_analysis).flood_areas,
                                      Get(land_cover_data), raises)
    /\ stage' = "analyzed"
    /\ UNCHANGED <<land_cover_data, water_analysis, cacheVars, alertVars, contextVars, runVars>>

\* line 588; `failed` are the flood types whose service call fails
RunStatistics ==
    /\ stage = "analyzed"
    /\ IF IsNone(flood_by_landuse)
       THEN calculate_enhanced_statistics_none
       ELSE \E failed \in SUBSET FloodTypes :
                calculate_enhanced_statistics(
                    [t \in FloodTypes |->
                        ServiceAnswer(Get(flood_by_landuse)[t], t \in failed)])

\* line 590
RunAlert ==
    /\ stage = "analyzed"
    /\ \E materialised \in BOOLEAN : generate_enhanced_alert_system(materialised)

\* lines 592-597
Finish ==
    /\ stage = "analyzed"
    /\ pc = "alert"
    /\ stage' = "done"
    /\ UNCHANGED <<permanent_water_mask, urban_mask, land_cover_data,
                   water_analysis, flood_by_landuse, args, cacheVars, alertVars,
                   contextVars, runVars>>

enhanced_flood_analysis ==
    \/ RunReferenceMasks
    \/ RunClassify
    \/ RunDetect
    \/ RunAnalyze
    \/ RunStatistics
    \/ RunAlert
    \/ Finish

SpecPipeline == Init /\ [][enhanced_flood_analysis]_vars

----------------------------------------------------------------------------
(* The setters.  Each one that accepts its argument runs update_datasets,
   classification and enhanced_flood_analysis; the first two change none of
   the fields modelled here and return whatever the remote service does. *)

\* the names setDepartment is called with: a department of the catalogue,
\* and a name the catalogue lacks
DepartmentNames == {"Dakar", "Atlantide"}

\* the strings the date setters are called with
DateStrings ==
    {<<"2", "0", "2", "4", "-", "0", "3", "-", "1", "5">>,
     <<"2", "0", "2", "4", "-", "3", "-", "1", "5">>,
     <<"2", "0", "2", "4", "-", "1", "3", "-", "0", "1">>,
     <<"2", "0", "2", "4", "-", "0", "2", "-", "3", "0">>,
     <<"1", "5", "/", "0", "3", "/", "2", "0", "2", "4">>,
     <<>>}

\* the object is constructed, and no call is running on it
AtRest == stage \in {"done", "aborted"}

\* update_datasets and classification have run and enhanced_flood_analysis
\* starts: the locals of the run before are gone
Rerun(call) ==
    /\ args' = Some(call)
    /\ stage' = "idle"
    /\ pc' = "idle"
    /\ land_cover_data' = NoneOpt
    /\ water_analysis' = NoneOpt
    /\ flood_by_landuse' = NoneOpt
    /\ stats' = <<>>
    /\ weighted_risk' = 0
    /\ area_dict' = <<>>
    /\ own' = NoneOpt
    /\ UNCHANGED <<permanent_water_mask, urban_mask, enhanced_alert_info,
                   flood_alert_level, made, cacheVars, suspended>>

\* setDepartment(dptName): the filter on shapeName is built lazily and
\* selects no feature for a name the catalogue lacks
setDepartment(dptName) ==
    /\ AtRest
    /\ calls < MaxCalls
    /\ calls' = calls + 1
    /\ department' = dptName
    /\ Rerun([op |-> "setDepartment", dptName |-> dptName, ran |-> TRUE])
    /\ UNCHANGED <<begining, end>>

\* _set_date(which, date_str)
_set_date(which, date_str) ==
    /\ AtRest
    /\ calls < MaxCalls
    /\ calls' = calls + 1
    /\ IF IsNone(strptime(date_str))
       THEN /\ args' = Some([op |-> "_set_date", which |-> which,
                             date_str |-> date_str, ran |-> FALSE])
            /\ UNCHANGED <<department, begining, end, stage, permanent_water_mask,
                           urban_mask, land_cover_data, water_analysis,
                           flood_by_landuse, alertVars, cacheVars, runVars>>
       ELSE /\ begining' = IF which = "begining" THEN date_str ELSE begining
            /\ end' = IF which = "end" THEN date_str ELSE end
            /\ Rerun([op |-> "_set_date", which |-> which,
                      date_str |-> date_str, ran |-> TRUE])
            /\ UNCHANGED department

setBeginingDate(date_str) == _set_date("begining", date_str)

setEndDate(date_str) == _set_date("end", date_str)

DoSetDepartment == \E dptName \in DepartmentNames : setDepartment(dptName)

DoSetBeginingDate == \E date_str \in DateStrings : setBeginingDate(date_str)

DoSetEndDate == \E date_str \in DateStrings : setEndDate(date_str)

\* the object is constructed, which runs the analysis, and its setters are
\* called one after the other
NextSession ==
    \/ enhanced_flood_analysis
    \/ DoSetDepartment
    \/ DoSetBeginingDate
    \/ DoSetEndDate

SpecSession == Init /\ [][NextSession]_vars

----------------------------------------------------------------------------
(* Two runs of enhanced_flood_analysis on one object, for two regions or
   periods, interleaved.  Each run has its locals; the fields of the object
   are those both runs read and write. *)

\* the stages after which the running run may be suspended
PreemptAt == {"references"}

\* the locals of the running run
Locals ==
    [stage |-> stage, pc |-> pc, land_cover_data |-> land_cover_data,
     water_analysis |-> water_analysis, flood_by_landuse |-> flood_by_landuse,
     stats |-> stats, weighted_risk |-> weighted_risk, area_dict |-> area_dict,
     args |-> args, own |-> own]

\* the running run is suspended and the other one starts, or goes on from
\* where it was suspended
Preempt ==
    /\ stage \in PreemptAt
    /\ suspended.stage \in {"idle"} \cup PreemptAt
    /\ suspended' = Locals
    /\ stage' = suspended.stage
    /\ pc' = suspended.pc
    /\ land_cover_data' = suspended.land_cover_data
    /\ water_analysis' = suspended.water_analysis
    /\ flood_by_landuse' = suspended.flood_by_landuse
    /\ stats' = suspended.stats
    /\ weighted_risk' = suspended.weighted_risk
    /\ area_dict' = suspended.area_dict
    /\ args' = suspended.args
    /\ own' = suspended.own
    /\ UNCHANGED <<permanent_water_mask, urban_mask, enhanced_alert_info,
                   flood_alert_level, made, cacheVars, contextVars>>

NextConcurrent ==
    \/ enhanced_flood_analysis
    \/ Preempt

SpecConcurrent == Init /\ [][NextConcurrent]_vars

----------------------------------------------------------------------------
(* temporal_flood_analysis.  A collection is a time-ordered sequence of
   snapshots; a snapshot is the day it was taken, counted from the start of
   the period, and its MNDWI raster.  Here an index value is in
   two-hundredths, so that the median of an even number of values, the mean
   of the two middle ones, is exact. *)

\* the literal 0.2 above which a change counts
ChangeThreshold == 40

\* date.toordinal(): the days before the year, those before the month
\* and the day
Ordinal(date) ==
    LET years == date.year - 1
        RECURSIVE before(_)
        before(month) ==
            IF month = 1 THEN 0
            ELSE before(month - 1) + DaysIn(date.year, month - 1)
    IN  years * 365 + years \div 4 - years \div 100 + years \div 400
            + before(date.month) + date.day

\* later.difference(earlier, 'day') of two date strings
difference(later, earlier) ==
    Ordinal(Get(strptime(later))) - Ordinal(Get(strptime(earlier)))

\* collection.filterDate(from, to), the two bounds in half days from the
\* start of the period: the snapshots taken at or after from and before to
filterDate(collection, from, to) ==
    SelectSeq(collection, LAMBDA snapshot :
                  2 * snapshot.day >= from /\ 2 * snapshot.day < to)

\* collection.median(): the per-pixel median, an image without bands for an
\* empty collection.  The median of a pixel's values is the middle one of
\* an odd number of them, the mean of the two middle ones otherwise
median(collection) ==
    LET n == Len(collection)
        value(i, j) == collection[j].MNDWI.px[i]
        smallest(i, k) ==
            CHOOSE x \in {value(i, j) : j \in 1..n} :
                /\ Cardinality({j \in 1..n : value(i, j) < x}) < k
                /\ k <= Cardinality({j \in 1..n : value(i, j) <= x})
    IN  IF collection = <<>>
        THEN [bands |-> {}, px |-> [i \in Pixels |-> [MNDWI |-> 0]]]
        ELSE [bands |-> {"MNDWI"},
              px |-> [i \in Pixels |->
                        [MNDWI |->
                           IF n % 2 = 1 THEN smallest(i, (n + 1) \div 2)
                           ELSE (smallest(i, n \div 2)
                                   + smallest(i, n \div 2 + 1)) \div 2]]]

\* a.subtract(b), a.abs()
subtract(a, b) ==
    IF a.ok /\ b.ok THEN Image([i \in Pixels |-> a.px[i] - b.px[i]]) ELSE Broken
abs(a) ==
    IF a.ok THEN Image([i \in Pixels |-> IF a.px[i] < 0 THEN -a.px[i] ELSE a.px[i]])
    ELSE Broken

\* temporal_flood_analysis(s2_idx_collection) on a constructed object, whose
\* fields mndwi_change and flood_change_areas are None; the call's record
\* carries the two fields as the call leaves them.  `raises` is whether a
\* call of the raster library raises, which the except clause swallows
temporal_flood_analysis(s2_idx_collection, raises) ==
    LET length == difference(end, begining)
        p1 == median(filterDate(s2_idx_collection, 0, length))
        p2 == median(filterDate(s2_idx_collection, length, 2 * length))
        change == subtract(select(p2, "MNDWI"), select(p1, "MNDWI"))
        returns == raises \/ p1.bands = {} \/ p2.bands = {}
    IN  args' = Some([op |-> "temporal_flood_analysis",
                      s2_idx_collection |-> s2_idx_collection,
                      raises |-> raises,
                      mndwi_change |-> IF returns THEN NoneOpt ELSE Some(change),
                      flood_change_areas |->
                          IF returns THEN NoneOpt
                          ELSE Some(gt(abs(change), ChangeThreshold))])

\* the days and the rasters of the snapshots the analysis is driven with
SnapshotDays == {2, 10, 14, 20, 30}
SnapshotValues == {0, 80, 160}
SnapshotRasters == {Image(px) : px \in [Pixels -> SnapshotValues]}

\* the collections of at most MaxSnapshots snapshots, in time order
Collections ==
    LET KthDay(days, k) ==
            CHOOSE d \in days : Cardinality({e \in days : e < d}) = k - 1
    IN
    UNION {{[j \in 1..Cardinality(days) |->
                [day |-> KthDay(days, j), MNDWI |-> rasters[j]]] :
              rasters \in [1..Cardinality(days) -> SnapshotRasters]} :
           days \in {D \in SUBSET SnapshotDays : Cardinality(D) <= MaxSnapshots}}

DoTemporal ==
    /\ stage = "idle"
    /\ \E s2_idx_collection \in Collections, raises \in BOOLEAN :
            temporal_flood_analysis(s2_idx_collection, raises)
    /\ stage' = "called"
    /\ UNCHANGED <<permanent_water_mask, urban_mask, land_cover_data,
                   water_analysis, flood_by_landuse, cacheVars, alertVars,
                   contextVars, runVars>>

SpecTemporal == Init /\ [][DoTemporal]_vars

----------------------------------------------------------------------------
(* What the object serves: get_enhanced_flood_statistics and the modelled
   keys of get_flood_statistics *)

\* a dictionary is truthy unless it is None or empty; the alert records are
\* never empty
get_enhanced_flood_statistics ==
    IF ~IsNone(enhanced_alert_info) THEN enhanced_alert_info ELSE NoneOpt

\* alerts.get(self.flood_alert_level, ...), written without its accents
LegacyMessage(level) ==
    CASE level = 0 -> "Tres faible - Pas de risque immediat"
      [] level = 1 -> "Faible - Surveillance recommandee"
      [] level = 2 -> "Modere - Vigilance requise"
      [] level = 3 -> "Eleve - Mesures preventives conseillees"
      [] level = 4 -> "Tres eleve - Alerte maximale"
      [] OTHER -> "Indetermine"

\* water_area_ha is only ever set once enhanced_alert_info is, so the
\* legacy branch serves its default
get_flood_statistics ==
    IF ~IsNone(enhanced_alert_info)
    THEN [water_area_ha |-> Get(enhanced_alert_info).total_flood_ha,
          alert_level |-> Get(enhanced_alert_info).alert_level,
          alert_message |-> Get(enhanced_alert_info).alert_message]
    ELSE [water_area_ha |-> 0,
          alert_level |-> flood_alert_level,
          alert_message |-> LegacyMessage(flood_alert_level)]

----------------------------------------------------------------------------
(* Properties of the statistics and of the alert ladder *)

Info == Get(enhanced_alert_info)

\* the areas (ha * Unit) the alert was computed from; a missing one is 0
UrbanHa == IF "urban_flooding" \in DOMAIN stats THEN stats["urban_flooding"] ELSE 0
AgriculturalHa ==
    IF "agricultural_flooding" \in DOMAIN stats
    THEN stats["agricultural_flooding"] ELSE 0
RuralHa == IF "rural_flooding" \in DOMAIN stats THEN stats["rural_flooding"] ELSE 0
ForestHa == IF "forest_flooding" \in DOMAIN stats THEN stats["forest_flooding"] ELSE 0

\* the alert record is the one of a call whose getInfo calls all returned
Materialised == pc = "alert" /\ Info.alert_message /= MsgError

\* sub occurs in s
Contains(s, sub) ==
    \E i \in 0..(Len(s) - Len(sub)) :
        \A j \in 1..Len(sub) : s[i + j] = sub[j]

AlerteRouge == <<"A", "L", "E", "R", "T", "E", " ", "R", "O", "U", "G", "E">>

\* C6: the alert level is that of the first matching rule of the ladder,
\* with strict thresholds: urban > 1000 ha gives 4, else urban > 500 gives 3,
\* else urban > 100 gives 2, else urban > 10 gives 1, else agricultural > 5000
\* or rural > 10000 gives 1, else 0; it is in 0..4 and the message of level 4
\* contains "ALERTE ROUGE".
C6_FirstMatchingRule ==
    pc = "alert" =>
        /\ Info.alert_level \in 0..4
        /\ Info.alert_level = 4 => Contains(Info.alert_message, AlerteRouge)
        /\ Materialised =>
              Info.alert_level =
                IF UrbanHa > 1000 * Unit THEN 4
                ELSE IF UrbanHa > 500 * Unit THEN 3
                ELSE IF UrbanHa > 100 * Unit THEN 2
                ELSE IF UrbanHa > 10 * Unit THEN 1
                ELSE IF AgriculturalHa > 5000 * Unit \/ RuralHa > 10000 * Unit
                THEN 1
                ELSE 0

\* Scenario A: 1200 ha of urban flood and nothing else
C6_Witness ==
    /\ Materialised /\ Info.alert_level = 4
    /\ UrbanHa = 1200 * Unit /\ AgriculturalHa = 0 /\ RuralHa = 0 /\ ForestHa = 0
    /\ Contains(Info.alert_message, AlerteRouge)

\* the urban areas (ha * Unit) the statistics can hold
UrbanStats == {2 * m2 : m2 \in UrbanAreas}

\* C7: with the agricultural, rural and forest areas held equal, a larger
\* urban flood area never gives a lower alert level.
C7_MonotoneInUrban ==
    Materialised =>
        \A u \in UrbanStats :
            LET other == Ladder(u, AgriculturalHa, RuralHa).level IN
            /\ u >= UrbanHa => other >= Info.alert_level
            /\ u <= UrbanHa => other <= Info.alert_level

C7_Witness ==
    /\ Materialised /\ UrbanHa = 500 * Unit /\ Info.alert_level = 2
    /\ AgriculturalHa > 5000 * Unit

\* C8: with at most 10 ha of urban flood the alert level is at most 1,
\* however large the agricultural, rural and forest areas are.
C8_RuralCappedAtOne ==
    (Materialised /\ UrbanHa <= 10 * Unit) => Info.alert_level <= 1

C8_Witness ==
    /\ Materialised /\ UrbanHa = 10 * Unit /\ Info.alert_level = 1
    /\ AgriculturalHa = 6000 * Unit /\ RuralHa > 10000 * Unit
    /\ ForestHa = 20000 * Unit

\* C9: the priority zones are those of the matching rule: none exactly when
\* the level is 0, the one urban label of an urban rule, and for the
\* rural/agricultural rule the agricultural label iff agricultural > 5000 ha
\* followed by the rural label iff rural > 10000 ha.
C9_PriorityZones ==
    pc = "alert" =>
        /\ (Info.priority_zones = <<>>) <=> (Info.alert_level = 0)
        /\ Materialised =>
              Info.priority_zones =
                IF UrbanHa > 1000 * Unit THEN <<"zones urbaines critiques">>
                ELSE IF UrbanHa > 500 * Unit THEN <<"zones urbaines">>
                ELSE IF UrbanHa > 100 * Unit THEN <<"zones urbaines localisees">>
                ELSE IF UrbanHa > 10 * Unit THEN <<"quelques zones urbaines">>
                ELSE (IF AgriculturalHa > 5000 * Unit
                      THEN <<"zones agricoles">> ELSE <<>>)
                     \o (IF RuralHa > 10000 * Unit
                         THEN <<"zones rurales">> ELSE <<>>)

C9_Witness ==
    /\ Materialised /\ Info.alert_level = 1
    /\ Info.priority_zones = <<"zones agricoles", "zones rurales">>

\* C10: the weighted risk is urban * 3 + agricultural * 1.5 + rural * 1
\* + forest * 0.5 of the per-type areas, a type the statistics lack
\* counting 0.
C10_WeightedRisk ==
    pc \in {"stats", "alert"} =>
        2 * weighted_risk =
            6 * UrbanHa + 3 * AgriculturalHa + 2 * RuralHa + ForestHa

C10_Witness ==
    /\ pc = "stats"
    /\ "urban_flooding" \notin DOMAIN stats
    /\ AgriculturalHa = 2 * (5000 * 10000 + 1) /\ RuralHa = 10000 * Unit
    /\ ForestHa = 20000 * Unit
    /\ weighted_risk = 3 * (5000 * 10000 + 1) + 10000 * Unit + 10000 * Unit

\* the statistics with every area multiplied by k
Scaled(st, k) == [t \in DOMAIN st |-> k * st[t]]

Factors == 0..MaxFactor

\* C11: the risk score is linear: the risk of the four areas each multiplied
\* by a factor k >= 0 is k times the risk of the areas.
C11_RiskLinear ==
    pc \in {"stats", "alert"} =>
        \A k \in Factors : WeightedRisk(Scaled(stats, k)) = k * weighted_risk

C11_Witness ==
    /\ pc = "stats"
    /\ UrbanHa > 0 /\ AgriculturalHa > 0 /\ RuralHa > Num(10000) /\ ForestHa > 0
    /\ WeightedRisk(Scaled(stats, MaxFactor)) = MaxFactor * weighted_risk
    /\ weighted_risk > 0

\* C18: the area statistic of every flood category is computed without an
\* exception and is never negative: it is 0 for an empty mask, for an answer
\* without the band key or with a null under it, and for a failed service
\* call; the other categories keep the area the service answered.
C18_AreaFailsToZero ==
    pc \in {"stats", "alert"} =>
        /\ DOMAIN stats = DOMAIN area_dict
        /\ \A t \in DOMAIN area_dict :
              /\ stats[t] >= 0
              /\ area_dict[t].kind \in {"nokey", "null", "error"} => stats[t] = 0
              /\ area_dict[t].kind = "area" => stats[t] = 2 * area_dict[t].m2

C18_Witness ==
    /\ pc = "stats"
    /\ DOMAIN area_dict = FloodTypes
    /\ area_dict["urban_flooding"].kind = "error"
    /\ area_dict["agricultural_flooding"].kind = "nokey"
    /\ area_dict["rural_flooding"] = Answer("area", 0)
    /\ area_dict["forest_flooding"] = Answer("area", 20000 * 10000)
    /\ stats["urban_flooding"] = 0 /\ stats["agricultural_flooding"] = 0
    /\ stats["rural_flooding"] = 0 /\ stats["forest_flooding"] = 20000 * Unit

\* the generate_enhanced_alert_system call made last
Made == Get(made)

\* C21: when materialising one of the four flood areas or the weighted risk
\* fails inside generate_enhanced_alert_system, the call does not raise and
\* returns the safe default record: alert level 0, no priority zone, the
\* four areas, the total and the weighted risk all 0.
C21_SafeDefault ==
    (pc = "alert" /\ ~Made.materialised) =>
        /\ ~IsNone(enhanced_alert_info)
        /\ Info.alert_level = 0
        /\ Info.priority_zones = <<>>
        /\ Info.urban_flood_ha = 0 /\ Info.rural_flood_ha = 0
        /\ Info.agricultural_flood_ha = 0 /\ Info.forest_flood_ha = 0
        /\ Info.total_flood_ha = 0
        /\ Info.weighted_risk = 0

\* the failure hides 1200 ha of urban flood
C21_Witness ==
    /\ pc = "alert" /\ ~Made.materialised
    /\ UrbanHa = 1200 * Unit /\ weighted_risk > 0
    /\ Info.alert_level = 0 /\ Info.total_flood_ha = 0

----------------------------------------------------------------------------
(* Properties of the land-cover classification *)

Called(op) == stage = "called" /\ ~IsNone(args) /\ Get(args).op = op

Arg == Get(args)

\* classify_land_cover has returned its dictionary
Classified == Called("classify_land_cover") /\ ~IsNone(land_cover_data)

Lcd == Get(land_cover_data)

ClassNames == {"bare_soil", "agricultural", "vegetation", "urban", "water"}

\* the predicates pixel i satisfies, as the returned masks give them
ClassesAt(i) == {c \in ClassNames : Lcd[c].px[i]}

MasksEvaluable == \A c \in ClassNames : Lcd[c].ok

C13_PriorityOrder ==
    (Classified /\ MasksEvaluable) =>
        \A i \in Pixels :
            Lcd.land_cover.px[i] =
                IF "water" \in ClassesAt(i) THEN 4
                ELSE IF "urban" \in ClassesAt(i) THEN 3
                ELSE IF "vegetation" \in ClassesAt(i) THEN 2
                ELSE IF "agricultural" \in ClassesAt(i) THEN 1
                ELSE 0

C13_Witness ==
    /\ Classified /\ MasksEvaluable
    /\ \E i \in Pixels :
          /\ Arg.s2_median.px[i].NDVI > NDVI_THRESHOLD
          /\ Arg.s2_median.px[i].MNDWI > WATER_THRESHOLD_MNDWI
          /\ Arg.s2_median.px[i].NDWI > WATER_THRESHOLD_NDWI
          /\ {"vegetation", "water", "urban"} \subseteq ClassesAt(i)
          /\ Lcd.land_cover.px[i] = 4

\* the classes whose predicate reads the index band b
DependsOn(b) ==
    CASE b = "MNDWI" -> {"water"}
      [] b = "NDWI" -> {"water"}
      [] b = "NDVI" -> {"vegetation", "agricultural", "bare_soil"}
                          \cup (IF IsNone(Arg.urban_mask) THEN {"urban"} ELSE {})
      [] b = "NDBI" -> {"agricultural", "bare_soil"}
                          \cup (IF IsNone(Arg.urban_mask) THEN {"urban"} ELSE {})

AllFalse == Image([i \in Pixels |-> FALSE])

\* C20: classify_land_cover never fails hard: for a median image that lacks
\* one index band it returns a land-cover raster in which the predicates
\* that read the missing band are false and the others are evaluated as
\* usual.
C20_MissingIndexDegrades ==
    (Called("classify_land_cover") /\ Arg.s2_median.bands /= IndexBands) =>
        /\ ~IsNone(land_cover_data)
        /\ Lcd.land_cover.ok
        /\ \A b \in IndexBands \ Arg.s2_median.bands :
              \A c \in DependsOn(b) : Lcd[c] = AllFalse
        /\ \A c \in ClassNames :
              c \notin UNION {DependsOn(b) : b \in IndexBands \ Arg.s2_median.bands}
                  => Lcd[c] = LandCoverData([Arg.s2_median EXCEPT !.bands = IndexBands],
                                            Arg.urban_mask)[c]

----------------------------------------------------------------------------
(* Properties of the flood discrimination and of the land-use analysis *)

\* detect_flood_vs_normal_water has returned its two masks
Detected == Called("detect_flood_vs_normal_water") /\ ~IsNone(water_analysis)

Wa == Get(water_analysis)

\* the reference mask the call worked with
ReferenceUsed == Get(permanent_water_mask)

\* C14: normal water = current water AND reference water, flood = current
\* water AND NOT reference water; at every pixel the two are disjoint and
\* their union is the current water.
C14_NormalAndFlood ==
    Detected =>
        \A i \in Pixels :
            LET current == Arg.current_water.px[i]
                normal  == Wa.normal_water.px[i]
                flood   == Wa.flood_areas.px[i]
            IN  /\ normal = (current /\ ReferenceUsed.px[i])
                /\ flood = (current /\ ~ReferenceUsed.px[i])
                /\ ~(normal /\ flood)
                /\ (normal \/ flood) = current

C14_Witness ==
    /\ Detected /\ ~IsNone(Arg.permanent_water_mask)
    /\ \E i, j \in Pixels :
          /\ Wa.normal_water.px[i] /\ ReferenceUsed.px[i]
          /\ Wa.flood_areas.px[j] /\ ~ReferenceUsed.px[j]

\* C15: without a permanent-water reference (None) the discrimination still
\* returns its two masks: the reference is current water AND slope < 2 when
\* the elevation is obtained, and the erosion of the current water (radius 2)
\* when the elevation lookup fails.
C15_ReferenceFallback ==
    (Called("detect_flood_vs_normal_water") /\ IsNone(Arg.permanent_water_mask)
        /\ ~Arg.raises) =>
        /\ Detected
        /\ Wa.normal_water.ok /\ Wa.flood_areas.ok
        /\ \A i \in Pixels :
              LET current == Arg.current_water.px[i]
                  proxy == IF IsNone(Arg.slope)
                           THEN \A j \in Pixels :
                                   (j - i \in -2..2) => Arg.current_water.px[j]
                           ELSE current /\ Get(Arg.slope).px[i] < 2
              IN  /\ Wa.normal_water.px[i] = (current /\ proxy)
                  /\ Wa.flood_areas.px[i] = (current /\ ~proxy)

\* the elevation lookup failed: the lone water pixel is eroded away and is
\* flood
C15_Witness ==
    /\ Detected /\ IsNone(Arg.permanent_water_mask) /\ IsNone(Arg.slope)
    /\ \E i, j \in Pixels :
          /\ Arg.current_water.px[i] /\ ~Arg.current_water.px[j]
          /\ Wa.flood_areas.px[i] /\ ~Wa.normal_water.px[i]

\* C16: flood discrimination is a pure function of the current water mask
\* and of the reference mask as supplied: a call leaves the reference mask
\* that later calls see as it found it, and returns the masks of that
\* reference (of its fallback when it is None).
C16_PureDiscrimination ==
    [][(stage = "idle" /\ stage' = "called"
          /\ Get(args').op = "detect_flood_vs_normal_water") =>
            /\ permanent_water_mask' = permanent_water_mask
            /\ ~IsNone(water_analysis') =>
                  LET current == Get(args').current_water
                      supplied == IF IsNone(permanent_water_mask)
                                  THEN Fallback(current, Get(args').slope)
                                  ELSE Get(permanent_water_mask)
                  IN  Get(water_analysis') =
                        [normal_water |-> And(current, supplied),
                         flood_areas |-> And(current, Not(supplied))]]_vars

\* analyze_flood_by_land_use has returned its four masks
Analyzed == Called("analyze_flood_by_land_use") /\ ~IsNone(flood_by_landuse)

Fbl == Get(flood_by_landuse)

\* C17: urban flood = flood AND urban, forest flood = flood AND vegetation,
\* agricultural flood = flood AND agricultural, rural flood = flood AND NOT
\* urban; urban and rural flood are disjoint and together are the flood mask.
C17_FloodByLandUse ==
    Analyzed =>
        \A i \in Pixels :
            LET flood == Arg.flood_areas.px[i]
                masks == Arg.land_cover_masks
            IN  /\ Fbl.urban_flooding.px[i] = (flood /\ masks.urban.px[i])
                /\ Fbl.forest_flooding.px[i] = (flood /\ masks.vegetation.px[i])
                /\ Fbl.agricultural_flooding.px[i] =
                      (flood /\ masks.agricultural.px[i])
                /\ Fbl.rural_flooding.px[i] = (flood /\ ~masks.urban.px[i])
                /\ ~(Fbl.urban_flooding.px[i] /\ Fbl.rural_flooding.px[i])
                /\ (Fbl.urban_flooding.px[i] \/ Fbl.rural_flooding.px[i]) = flood

\* a flooded pixel counted as forest, agricultural and rural flood at once,
\* next to a flooded urban pixel
C17_Witness ==
    /\ Analyzed
    /\ \E i, j \in Pixels :
          /\ Fbl.forest_flooding.px[i] /\ Fbl.agricultural_flooding.px[i]
          /\ Fbl.rural_flooding.px[i]
          /\ Fbl.urban_flooding.px[j] /\ ~Fbl.rural_flooding.px[j]

----------------------------------------------------------------------------
(* Properties of a run of enhanced_flood_analysis *)

\* a stage of the run returned None
StageFailed ==
    IsNone(land_cover_data) \/ IsNone(water_analysis) \/ IsNone(flood_by_landuse)

\* C19: no failing stage aborts the run: when the classification, the flood
\* discrimination or the land-use analysis fails, the run still goes through
\* its remaining stages and ends with an alert record, whose aggregates are
\* zero or empty.
C19_NoStageAborts ==
    stage \in {"done", "aborted"} =>
        /\ stage = "done"
        /\ ~IsNone(enhanced_alert_info)
        /\ StageFailed =>
              /\ Info.alert_level = 0
              /\ Info.total_flood_ha = 0
              /\ Info.weighted_risk = 0
              /\ Info.priority_zones = <<>>

\* the run went through with no failure: every stage returned, every
\* service call answered and every getInfo returned
RunClean ==
    /\ stage = "done" /\ ~StageFailed /\ Made.materialised
    /\ DOMAIN area_dict = FloodTypes
    /\ \A t \in FloodTypes : area_dict[t].kind = "area"

\* the area of the flood mask in hectares, every flooded pixel counted once
FloodMaskHa == Divide(Count(Wa.flood_areas, TRUE) * PixelArea, 10000)

\* C28: the total flooded surface reported as total_flood_ha, and served as
\* water_area_ha by get_flood_statistics, is the area of the flood mask with
\* every flooded pixel counted once: the urban flood area plus the rural
\* flood area.
C28_TotalCountsOnce ==
    RunClean =>
        /\ Info.total_flood_ha = Round2(FloodMaskHa)
        /\ Info.total_flood_ha = Round2(UrbanHa + RuralHa)
        /\ get_flood_statistics.water_area_ha = Round2(FloodMaskHa)

----------------------------------------------------------------------------
(* Properties of the temporal analysis *)

\* temporal_flood_analysis has returned, no call of the library raising
TemporalDone ==
    Called("temporal_flood_analysis") /\ ~Arg.raises

Series == Arg.s2_idx_collection

\* the sum of f[1] .. f[n]
RECURSIVE SumTo(_, _)
SumTo(f, n) == IF n = 0 THEN 0 ELSE SumTo(f, n - 1) + f[n]

\* the sum over the region of an image
RegionSum(img) == SumTo(img.px, NumPixels)

\* the sum over the region and over the snapshots from..to of the series
SeriesSum(from, to) ==
    SumTo([j \in 1..(to - from + 1) |-> RegionSum(Series[from + j - 1].MNDWI)],
          to - from + 1)

\* C26: the temporal trend over a series of fewer than 3 snapshots, of
\* exactly 2 in particular, is 0.0, and no exception is raised: the analysis
\* reports no change (it leaves the change unset, or zero everywhere).
C26_ShortSeriesNoTrend ==
    (TemporalDone /\ Len(Series) < 3) =>
        \/ IsNone(Arg.mndwi_change)
        \/ \A i \in Pixels : Get(Arg.mndwi_change).px[i] = 0

\* C27: for a time-ordered series of n >= 3 snapshots the trend is the mean
\* of the index over the last n \div 3 snapshots less its mean over the
\* first n \div 3 (the split is by count, not by date; the means are over
\* the region), so it is positive exactly when the late mean exceeds the
\* early one.
C27_TrendByThirds ==
    (TemporalDone /\ Len(Series) >= 3) =>
        LET n == Len(Series)
            third == n \div 3
            late == SeriesSum(n - third + 1, n)
            early == SeriesSum(1, third)
        IN  /\ ~IsNone(Arg.mndwi_change)
            /\ third * RegionSum(Get(Arg.mndwi_change)) = late - early
            /\ (RegionSum(Get(Arg.mndwi_change)) > 0) <=> (late > early)

----------------------------------------------------------------------------
(* Properties of interleaved runs *)

\* the references the running run loaded
Own == Get(own)

\* what detect_flood_vs_normal_water returns for the run alone: the masks
\* of the reference the run loaded, or of its fallback
AloneWaterAnalysis ==
    LET current == Lcd.water
        reference == IF IsNone(Own.permanent_water_mask)
                     THEN Fallback(current, Arg.slope)
                     ELSE Get(Own.permanent_water_mask)
    IN  [normal_water |-> And(current, reference),
         flood_areas |-> And(current, Not(reference))]

\* C24: runs for two different (region, period) pairs may be interleaved
\* arbitrarily: under every interleaving of their stages a run produces the
\* masks, the alert record and the alert level it produces when run alone,
\* for it reads only its inputs and read-only reference data.
C24_RunsIndependent ==
    /\ stage = "classified" =>
          Lcd = LandCoverData(Arg.s2_median, Own.urban_mask)
    /\ stage = "detected" => Wa = AloneWaterAnalysis
    /\ stage = "done" =>
          /\ enhanced_alert_info \in
                {Some(AlertRecord(stats, weighted_risk)), Some(ErrorRecord)}
          /\ Made.materialised =>
                flood_alert_level = AlertRecord(stats, weighted_risk).alert_level

----------------------------------------------------------------------------
(* Properties of the setters *)

\* s is a date written YYYY-MM-DD: four digits, two digits, two digits, a
\* month of the year and a day of that month
IsDate(s) ==
    /\ Len(s) = 10
    /\ \A i \in {1, 2, 3, 4, 6, 7, 9, 10} : s[i] \in Digits
    /\ s[5] = "-" /\ s[8] = "-"
    /\ IntOf(SubSeq(s, 1, 4)) >= 1
    /\ IntOf(SubSeq(s, 6, 7)) \in 1..12
    /\ IntOf(SubSeq(s, 9, 10)) \in
          1..DaysIn(IntOf(SubSeq(s, 1, 4)), IntOf(SubSeq(s, 6, 7)))

\* the step is a call of the setter op
Calls(op) == calls' = calls + 1 /\ Get(args').op = op

\* what the object stores of its analyses
Stored ==
    <<enhanced_alert_info, flood_alert_level, permanent_water_mask, urban_mask>>

\* C22: setBeginingDate / setEndDate with a string that is not a valid
\* YYYY-MM-DD date is rejected before any remote dispatch: begining and end
\* keep their values, none of update_datasets, classification and
\* enhanced_flood_analysis is run, and every stored result is unchanged.
C22_BadDateRejected ==
    [][(Calls("_set_date") /\ ~IsDate(Get(args').date_str)) =>
          /\ begining' = begining /\ end' = end
          /\ ~Get(args').ran
          /\ stage' = stage
          /\ Stored' = Stored]_vars

\* C23: setDepartment with a name that is not a department of the
\* catalogue is rejected before any remote dispatch: the department is
\* unchanged, and none of update_datasets, classification and
\* enhanced_flood_analysis is run for the unknown name.
C23_UnknownDepartmentRejected ==
    [][(Calls("setDepartment") /\ Get(args').dptName \notin Departments) =>
          /\ department' = department
          /\ ~Get(args').ran
          /\ stage' = stage
          /\ Stored' = Stored]_vars

\* the context the stored alert record was computed for
ComputedFor == Made.context

\* C25: after any sequence of setter calls, also ones during which a stage
\* of the run fails, the stored alert record, and with it what
\* get_enhanced_flood_statistics and get_flood_statistics serve, was
\* computed for the current department, begining and end, and not for an
\* earlier context.
C25_ResultsOfCurrentContext ==
    (AtRest /\ ~IsNone(enhanced_alert_info)) =>
        /\ ComputedFor = <<department, begining, end>>
        /\ get_enhanced_flood_statistics = enhanced_alert_info
        /\ get_flood_statistics.alert_level = Info.alert_level
        /\ get_flood_statistics.water_area_ha = Info.total_flood_ha

\* C29: after every call of generate_enhanced_alert_system and of
\* enhanced_flood_analysis, whether it succeeded or a materialisation
\* failed, the legacy field flood_alert_level is the alert_level of the
\* alert record just returned and stored in enhanced_alert_info.
C29_LegacyLevelAgrees ==
    ((pc = "alert" \/ AtRest) /\ ~IsNone(enhanced_alert_info)) =>
        flood_alert_level = Info.alert_level

----------------------------------------------------------------------------
(* Properties of the cache *)

Served(k) == k \in DOMAIN rows /\ Live(rows, k)

\* p is an initial segment of k
IsPrefixOf(p, k) == \E n \in 0..Len(k) : p = [i \in 1..n |-> k[i]]

\* C1: a getset on a key under which an earlier getset stored a value, made
\* within the TTL and with no clear in between, does not invoke compute_fn
\* and returns the stored value, whatever that value is.
C1_MemoizedOnce ==
    (last.op = "getset" /\ last.before = "stored" /\ last.was_live)
        => (~last.invoked /\ last.ret = rows[last.key].val)

\* C2: the scope prefix of clear_context(dpt, begin, end) is a prefix of
\* every key key_context builds for that region and period with a non-empty
\* operation name, so after clear_context no such entry remains.
C2_ScopeCleared ==
    \A n \in Names, d \in Dpts, b \in Begins, e \in Ends, x \in Extras :
        (n /= <<>> /\ last.op = "clear_context"
                  /\ last.key = scope_prefix(d, b, e))
            => ~Served(key_context(n, d, b, e, x))

\* C3: after a getset has cached a value under a key, a getset on that key
\* that follows a clear_prefix with a prefix of the key, or the passing of
\* the entry's TTL, invokes compute_fn again, and the value it computes is
\* the key's entry from then on (the store's set succeeding).
C3_RecomputedAfterClearOrExpiry ==
    (last.op = "getset"
        /\ (last.before = "cleared" \/ (last.before = "stored" /\ ~last.was_live)))
        => /\ last.invoked
           /\ (~last.raised /\ ~last.set_failed)
                => /\ last.key \in DOMAIN rows
                   /\ rows[last.key].val = last.computed
                   /\ last.ret = last.computed
                   /\ hist[last.key] = "stored"

C3_Witness ==
    /\ last.op = "getset" /\ last.before = "cleared" /\ last.invoked
    /\ last.ret = "v2" /\ Served(last.key)

\* C4: clear_prefix(prefix) removes exactly the entries whose key starts with
\* prefix: afterwards none is served, every row whose key does not start
\* with prefix is as it was, and the count returned is the number of rows
\* removed.
C4_ClearPrefixExact ==
    [][last'.op = "clear_prefix" =>
        LET p == last'.key IN
        /\ \A k \in DOMAIN rows' : ~(IsPrefixOf(p, k) /\ Live(rows', k))
        /\ \A k \in DOMAIN rows :
              ~IsPrefixOf(p, k) => (k \in DOMAIN rows' /\ rows'[k] = rows[k])
        /\ DOMAIN rows' \subseteq DOMAIN rows
        /\ \A k \in DOMAIN rows \ DOMAIN rows' : IsPrefixOf(p, k) /\ Live(rows, k)
        /\ last'.count = Cardinality(DOMAIN rows \ DOMAIN rows')]_vars

C4_Witness ==
    /\ last.op = "clear_prefix" /\ last.count = 2
    /\ last.key /= <<>>
    /\ \E k \in DOMAIN rows : Live(rows, k) /\ ~IsPrefixOf(last.key, k)

\* C5: when the store's set fails in a getset that missed, getset does not
\* raise and returns the value compute_fn returned, the store is as it was,
\* and the next getset on the key computes again.
C5_SetFailureSwallowed ==
    [][/\ (last'.op = "getset" /\ last'.set_failed)
            => /\ ~last'.raised
               /\ last'.invoked
               /\ last'.ret = last'.computed
               /\ rows' = rows
       /\ (last'.op = "getset" /\ last'.before = "failed") => last'.invoked]_vars

C5_Witness ==
    /\ last.op = "getset" /\ last.before = "failed" /\ last.invoked
    /\ last.set_failed /\ last.ret = "v1" /\ ~last.raised

\* C30: a getset that returns, returns either the value an earlier getset
\* stored under its key, still unexpired and not cleared, or what its own
\* invocation of compute_fn returned; None is never served from the store:
\* a getset on a key whose row holds None invokes compute_fn again.
C30_ServedOrComputed ==
    [][(last'.op = "getset" /\ ~last'.raised) =>
        /\ \/ /\ ~last'.invoked
              /\ last'.before = "stored" /\ last'.was_live
              /\ Live(rows, last'.key)
              /\ last'.ret = rows[last'.key].val
              /\ last'.ret /= None
           \/ /\ last'.invoked
              /\ last'.ret = last'.computed
        /\ (last'.key \in DOMAIN rows /\ rows[last'.key].val = None)
              => last'.invoked]_vars

\* a getset on a key whose unexpired row holds None computes again, and
\* returns the value it computed
C30_Witness ==
    /\ last.op = "getset" /\ last.before = "stored" /\ last.was_live
    /\ last.invoked /\ last.ret = "v1" /\ ~last.raised

====
